---- MODULE Spec2Model ----
(***************************************************************************)
(* A model of the iter_view crate (src/src/lib.rs): the IterView trait,    *)
(* its implementations for the standard containers, for Box and for        *)
(* references, and the function-backed FuncIterView.                       *)
(*                                                                         *)
(* A source value is a record tagged with its type (kind).  A traversal is *)
(* a record tagged with the iterator type the implementation names as      *)
(* `type Iter`; it holds positions into the memory of the container it     *)
(* borrows from.  An item yielded by reference is the location it points   *)
(* to together with the value read through it; an item yielded by value    *)
(* (FuncIterView over a range) has location 0.                             *)
(***************************************************************************)
EXTENDS Integers, Sequences, FiniteSets, TLC

\* Longest container, and largest anchor of a FuncIterView.
MaxLen == 3
\* Payloads of Option and Result are 1..MaxElem.
MaxElem == 2
\* Traversals alive at the same time.
MaxIters == 2
\* Nesting depth of Box and reference wrappers.
MaxDepth == 2
\* Cap of the counter of projection invocations.
MaxCalls == 3

Elem == 1..MaxElem
Slots == 1..MaxIters
\* The element sequences arrays and Vecs are built from: 1, 2, .., n and
\* n, .., 2, 1.
Asc(n) == [j \in 1..n |-> j]
Desc(n) == [j \in 1..n |-> n + 1 - j]
Datas == {Asc(n) : n \in 0..MaxLen} \cup {Desc(n) : n \in 0..MaxLen}

VARIABLES
    src,      \* the source value the caller owns
    its,      \* slot -> the traversal living in it, or NoIter
    out,      \* slot -> the items next() has returned as Some(item)
    ended,    \* slot -> next() has returned None
    calls,    \* invocations of a FuncIterView's projection so far
    asked,    \* calls of iter() on a FuncIterView so far
    hist      \* the elements of a list or deque, front to back, as pushed

vars == <<src, its, out, ended, calls, asked, hist>>

NoIter == [type |-> "none"]

\* A reference to location loc, reading val there.
RefTo(loc, val) == [loc |-> loc, key |-> 0, val |-> val]

\* An item yielded by value.
ByValue(val) == [loc |-> 0, key |-> 0, val |-> val]

NoItem == [loc |-> 0, key |-> 0, val |-> 0]

\* Option<Item> as returned by Iterator::next, with the advanced iterator.
YieldSome(it, item) == [it |-> it, some |-> TRUE, item |-> item]
YieldNone(it) == [it |-> it, some |-> FALSE, item |-> NoItem]

----------------------------------------------------------------------------
(* Source values.                                                          *)

VecOf(data) == [kind |-> "Vec", data |-> data]
ArrayOf(data) == [kind |-> "Array", data |-> data]
\* A slice [T]: the window lo..hi-1 of the memory it views.
SliceOf(data, lo, hi) == [kind |-> "Slice", data |-> data, lo |-> lo, hi |-> hi]
SomeOf(v) == [kind |-> "Option", some |-> TRUE, val |-> v]
NoneOpt == [kind |-> "Option", some |-> FALSE, val |-> 0]
OkOf(v) == [kind |-> "Result", ok |-> TRUE, val |-> v, err |-> 0]
ErrOf(e) == [kind |-> "Result", ok |-> FALSE, val |-> 0, err |-> e]
\* A HashMap: NBuckets buckets, an empty one has key 0.
NBuckets == MaxLen + 1
Keys == 1..MaxLen
EmptyBucket == [k |-> 0, v |-> 0]
EmptyMap == [kind |-> "HashMap", tab |-> [j \in 1..NBuckets |-> EmptyBucket]]
EmptySet == [kind |-> "HashSet", tab |-> [j \in 1..NBuckets |-> EmptyBucket]]
\* A LinkedList: nodes linked both ways, 0 is the null pointer.
EmptyList == [kind |-> "LinkedList", nodes |-> <<>>, head |-> 0, tail |-> 0, len |-> 0]
\* A VecDeque: a ring buffer of Cap cells, head counted from 0; 0 marks a
\* cell that holds no element.
Cap == MaxLen
EmptyDeque == [kind |-> "VecDeque", buf |-> [j \in 1..Cap |-> 0], head |-> 0, len |-> 0]
EmptyHeap == [kind |-> "BinaryHeap", data |-> <<>>]
\* The value a FuncIterView is anchored to, before iter(&o, f) is called.
AnchorOf(o) == [kind |-> "Anchor", o |-> o]
Projections == {"upto", "empty", "single"}
BoxOf(v) == [kind |-> "Box", inner |-> v]
RefOf(v) == [kind |-> "Ref", inner |-> v]

IsWrapper(v) == v.kind \in {"Box", "Ref"}

RECURSIVE Depth(_)
Depth(v) == IF IsWrapper(v) THEN 1 + Depth(v.inner) ELSE 0

\* The container a traversal of v borrows from.
RECURSIVE Base(_)
Base(v) == IF IsWrapper(v) THEN Base(v.inner) ELSE v

----------------------------------------------------------------------------
(* The traversal types and their next().                                   *)

\* self[..] of an array or a Vec: the slice of all its elements.
FullRange(data) == [lo |-> 1, hi |-> Len(data) + 1]

\* <[T]>::iter: a pointer to the first element and one past the last.
SliceIter(s) == [type |-> "slice", ptr |-> s.lo, end |-> s.hi]

SliceNext(it, mem) ==
    IF it.ptr = it.end
    THEN YieldNone(it)
    ELSE YieldSome([it EXCEPT !.ptr = it.ptr + 1], RefTo(it.ptr, mem[it.ptr]))

\* Option::iter: option::Iter holds self.as_ref(), an Option<&T>.
OptionIter(v) == [type |-> "option", opt |-> IF v.some THEN 1 ELSE 0]

\* ResultIter that takes the payload of either variant.
ResultIterAny(v) == [type |-> "result", opt |-> 1]

\* Result::iter: result::Iter holds self.as_ref().ok(), an Option<&T>.
ResultIter(v) == [type |-> "result", opt |-> IF v.ok THEN 1 ELSE 0]

\* next() of option::Iter and result::Iter: Option::take.
TakeNext(it, base) ==
    IF it.opt = 0
    THEN YieldNone(it)
    ELSE YieldSome([it EXCEPT !.opt = 0], RefTo(it.opt, base.val))

\* HashMap::iter and HashSet::iter: the next bucket to look at and the number
\* of entries still to yield.
Occupied(tab) == {j \in 1..Len(tab) : tab[j].k # 0}
TableIter(type, tab) == [type |-> type, pos |-> 1, items |-> Cardinality(Occupied(tab))]

\* The first occupied bucket at or after pos.
NextFull(tab, pos) == CHOOSE j \in Occupied(tab) :
    j >= pos /\ \A h \in Occupied(tab) : h >= pos => j <= h

\* MapNext that does not step past the bucket it yields.
MapNextStuck(it, tab) ==
    IF it.items = 0
    THEN YieldNone(it)
    ELSE LET j == NextFull(tab, it.pos) IN
         YieldSome([it EXCEPT !.pos = j, !.items = it.items - 1],
                   [loc |-> j, key |-> tab[j].k, val |-> tab[j].v])

\* hash_map::Iter::next: a pair of references into the bucket.
MapNext(it, tab) ==
    IF it.items = 0
    THEN YieldNone(it)
    ELSE LET j == NextFull(tab, it.pos) IN
         YieldSome([it EXCEPT !.pos = j + 1, !.items = it.items - 1],
                   [loc |-> j, key |-> tab[j].k, val |-> tab[j].v])

\* hash_set::Iter::next: a reference to the member.
SetNext(it, tab) ==
    IF it.items = 0
    THEN YieldNone(it)
    ELSE LET j == NextFull(tab, it.pos) IN
         YieldSome([it EXCEPT !.pos = j + 1, !.items = it.items - 1],
                   RefTo(j, tab[j].k))

\* LinkedList::iter: linked_list::Iter copies head, tail and len.
ListIter(l) == [type |-> "list", head |-> l.head, tail |-> l.tail, len |-> l.len]

ListNext(it, nodes) ==
    IF it.len = 0
    THEN YieldNone(it)
    ELSE YieldSome([it EXCEPT !.head = nodes[it.head].next, !.len = it.len - 1],
                   RefTo(it.head, nodes[it.head].elem))

\* AsSlices that forgets the part of the ring wrapped to the front of buf.
AsSlicesNoWrap(d) ==
    IF d.head + d.len <= Cap
    THEN <<[lo |-> d.head + 1, hi |-> d.head + d.len + 1], [lo |-> 1, hi |-> 1]>>
    ELSE <<[lo |-> d.head + 1, hi |-> Cap + 1], [lo |-> 1, hi |-> 1]>>

\* VecDeque::as_slices: the two contiguous parts of the ring, as slices of buf.
AsSlices(d) ==
    IF d.head + d.len <= Cap
    THEN <<[lo |-> d.head + 1, hi |-> d.head + d.len + 1], [lo |-> 1, hi |-> 1]>>
    ELSE <<[lo |-> d.head + 1, hi |-> Cap + 1],
           [lo |-> 1, hi |-> d.len - (Cap - d.head) + 1]>>

\* VecDeque::iter: vec_deque::Iter holds a slice iterator for each part.
DequeIter(d) ==
    LET s == AsSlices(d) IN
    [type |-> "deque", i1 |-> SliceIter(s[1]), i2 |-> SliceIter(s[2])]

\* vec_deque::Iter::next: i1.next(), and on None swap i1 and i2 and try again.
DequeNext(it, buf) ==
    LET r == SliceNext(it.i1, buf) IN
    IF r.some
    THEN YieldSome([it EXCEPT !.i1 = r.it], r.item)
    ELSE LET q == SliceNext(it.i2, buf) IN
         [it |-> [it EXCEPT !.i1 = q.it, !.i2 = r.it], some |-> q.some, item |-> q.item]

\* Project with |_| 0..1 in the place of |_| 0..0.
ProjectOffByOne(f, o) ==
    CASE f = "upto" -> [type |-> "range", start |-> 0, end |-> o]
      [] f = "empty" -> [type |-> "range", start |-> 0, end |-> 1]
      [] f = "single" -> [type |-> "range", start |-> o, end |-> o + 1]

\* The projections a FuncIterView is built with, each returning a Range<usize>:
\* |v| 0..*v, |_| 0..0 and |v| *v..*v + 1.
Project(f, o) ==
    CASE f = "upto" -> [type |-> "range", start |-> 0, end |-> o]
      [] f = "empty" -> [type |-> "range", start |-> 0, end |-> 0]
      [] f = "single" -> [type |-> "range", start |-> o, end |-> o + 1]

\* Range<usize>::next
RangeNext(it) ==
    IF it.start < it.end
    THEN YieldSome([it EXCEPT !.start = it.start + 1], ByValue(it.start))
    ELSE YieldNone(it)

\* Iterator::next of the traversal it, which borrows from base.
IterNext(it, base) ==
    CASE it.type = "slice" -> SliceNext(it, base.data)
      [] it.type \in {"option", "result"} -> TakeNext(it, base)
      [] it.type = "hashmap" -> MapNext(it, base.tab)
      [] it.type = "hashset" -> SetNext(it, base.tab)
      [] it.type = "list" -> ListNext(it, base.nodes)
      [] it.type = "deque" -> DequeNext(it, base.buf)
      [] it.type = "range" -> RangeNext(it)

----------------------------------------------------------------------------
(* IterView::iter, by implementation.                                      *)

IsIterView(v) == Base(v).kind # "Anchor"

\* IterViewArray with self[1..] in the place of self[..].
IterViewArrayTail(v) ==
    SliceIter([lo |-> IF Len(v.data) > 0 THEN 2 ELSE 1, hi |-> Len(v.data) + 1])
IterViewArray(v) == SliceIter(FullRange(v.data))
IterViewVec(v) == SliceIter(FullRange(v.data))
IterViewSlice(v) == SliceIter([lo |-> v.lo, hi |-> v.hi])
\* IterViewOption that does not look at the variant.
IterViewOptionAny(v) == [type |-> "option", opt |-> 1]
IterViewOption(v) == OptionIter(v)
IterViewResult(v) == ResultIter(v)
IterViewHashMap(v) == TableIter("hashmap", v.tab)
IterViewLinkedList(v) == ListIter(v)
IterViewBinaryHeap(v) == SliceIter(FullRange(v.data))
IterViewVecDeque(v) == DequeIter(v)
IterViewHashSet(v) == TableIter("hashset", v.tab)
\* IterViewFunc calling the projection on a default anchor.
IterViewFuncDefault(v) == Project(v.f, 0)
\* (self.f)(self.o)
IterViewFunc(v) == Project(v.f, v.o)

\* The traversal iter() returns and the projection invocations it made.
RECURSIVE IterViewIter(_)

\* (*self).iter()
IterViewRef(v) == IterViewIter(v.inner)

\* IterViewBox handing out the inner traversal advanced by one item.
IterViewBoxSkip(v) ==
    LET r == IterViewIter(v.inner) IN
    [it |-> IterNext(r.it, Base(v)).it, inv |-> r.inv]

\* self.as_ref().iter()
IterViewBox(v) == IterViewIter(v.inner)

IterViewIter(v) ==
    CASE v.kind = "Ref" -> IterViewRef(v)
      [] v.kind = "Box" -> IterViewBox(v)
      [] v.kind = "Array" -> [it |-> IterViewArray(v), inv |-> 0]
      [] v.kind = "Vec" -> [it |-> IterViewVec(v), inv |-> 0]
      [] v.kind = "Slice" -> [it |-> IterViewSlice(v), inv |-> 0]
      [] v.kind = "Option" -> [it |-> IterViewOption(v), inv |-> 0]
      [] v.kind = "Result" -> [it |-> IterViewResult(v), inv |-> 0]
      [] v.kind = "HashMap" -> [it |-> IterViewHashMap(v), inv |-> 0]
      [] v.kind = "LinkedList" -> [it |-> IterViewLinkedList(v), inv |-> 0]
      [] v.kind = "BinaryHeap" -> [it |-> IterViewBinaryHeap(v), inv |-> 0]
      [] v.kind = "VecDeque" -> [it |-> IterViewVecDeque(v), inv |-> 0]
      [] v.kind = "HashSet" -> [it |-> IterViewHashSet(v), inv |-> 0]
      [] v.kind = "FuncIterView" -> [it |-> IterViewFunc(v), inv |-> 1]

----------------------------------------------------------------------------
(* The state machine.                                                      *)

NoLive == \A i \in Slots : its[i].type = "none"

Init ==
    /\ src \in {VecOf(d) : d \in Datas}
           \cup {ArrayOf(d) : d \in Datas}
           \cup {SliceOf(Asc(MaxLen), lo, hi) : lo \in 1..(MaxLen + 1), hi \in 1..(MaxLen + 1)}
           \cup {SomeOf(v) : v \in Elem} \cup {NoneOpt}
           \cup {OkOf(v) : v \in Elem} \cup {ErrOf(e) : e \in Elem}
           \cup {EmptyMap, EmptySet, EmptyList, EmptyDeque, EmptyHeap}
           \cup {AnchorOf(o) : o \in 0..MaxLen}
    /\ src.kind = "Slice" => src.lo <= src.hi
    /\ its = [i \in Slots |-> NoIter]
    /\ out = [i \in Slots |-> <<>>]
    /\ ended = [i \in Slots |-> FALSE]
    /\ calls = 0
    /\ asked = 0
    /\ hist = <<>>

\* The bucket insert(k, _) uses: the one holding k, else the first empty one
\* met from the hash of k on.
Hash(k) == (2 * k) % NBuckets
\* The value the map is given for key k.
ValOf(k) == MaxLen + k
Probe(tab, k) ==
    IF \E j \in 1..Len(tab) : tab[j].k = k
    THEN CHOOSE j \in 1..Len(tab) : tab[j].k = k
    ELSE LET at(n) == ((Hash(k) + n) % Len(tab)) + 1
             n0 == CHOOSE n \in 0..(Len(tab) - 1) :
                       tab[at(n)].k = 0 /\ \A m \in 0..(n - 1) : tab[at(m)].k # 0
         IN at(n0)

Count(tab) == Cardinality(Occupied(tab))

\* map.insert(k, ValOf(k)) of a new key, while no traversal borrows the map.
MapInsert(k) ==
    /\ NoLive
    /\ src.kind = "HashMap"
    /\ (\A j \in 1..NBuckets : src.tab[j].k # k) /\ Count(src.tab) < MaxLen
    /\ src' = [src EXCEPT !.tab[Probe(src.tab, k)] = [k |-> k, v |-> ValOf(k)]]
    /\ UNCHANGED <<its, out, ended, calls, asked, hist>>

\* set.insert(k)
SetInsert(k) ==
    /\ NoLive
    /\ src.kind = "HashSet"
    /\ (\A j \in 1..NBuckets : src.tab[j].k # k) /\ Count(src.tab) < MaxLen
    /\ src' = [src EXCEPT !.tab[Probe(src.tab, k)] = [k |-> k, v |-> 0]]
    /\ UNCHANGED <<its, out, ended, calls, asked, hist>>

\* list.push_back(e), e the ordinal of the push
ListPushBack ==
    /\ NoLive
    /\ src.kind = "LinkedList"
    /\ src.len < MaxLen
    /\ LET n == Len(src.nodes) + 1
           e == src.len + 1
           linked == IF src.tail = 0 THEN src.nodes
                     ELSE [src.nodes EXCEPT ![src.tail].next = n]
       IN /\ src' = [src EXCEPT !.nodes = Append(linked, [elem |-> e, next |-> 0, prev |-> src.tail]),
                                !.head = IF src.head = 0 THEN n ELSE src.head,
                                !.tail = n,
                                !.len = src.len + 1]
          /\ hist' = Append(hist, e)
    /\ UNCHANGED <<its, out, ended, calls, asked>>

\* list.push_front(e)
ListPushFront ==
    /\ NoLive
    /\ src.kind = "LinkedList"
    /\ src.len < MaxLen
    /\ LET n == Len(src.nodes) + 1
           e == src.len + 1
           linked == IF src.head = 0 THEN src.nodes
                     ELSE [src.nodes EXCEPT ![src.head].prev = n]
       IN /\ src' = [src EXCEPT !.nodes = Append(linked, [elem |-> e, next |-> src.head, prev |-> 0]),
                                !.head = n,
                                !.tail = IF src.tail = 0 THEN n ELSE src.tail,
                                !.len = src.len + 1]
          /\ hist' = <<e>> \o hist
    /\ UNCHANGED <<its, out, ended, calls, asked>>

\* deque.push_back(e): the cell after the last, wrapping at Cap.
DequePushBack ==
    /\ NoLive
    /\ src.kind = "VecDeque"
    /\ src.len < Cap
    /\ LET e == src.len + 1 IN
        /\ src' = [src EXCEPT !.buf[((src.head + src.len) % Cap) + 1] = e,
                              !.len = src.len + 1]
        /\ hist' = Append(hist, e)
    /\ UNCHANGED <<its, out, ended, calls, asked>>

\* deque.push_front(e): head steps back, wrapping at 0.
DequePushFront ==
    /\ NoLive
    /\ src.kind = "VecDeque"
    /\ src.len < Cap
    /\ LET e == src.len + 1
           h == (src.head + Cap - 1) % Cap
       IN /\ src' = [src EXCEPT !.buf[h + 1] = e, !.head = h, !.len = src.len + 1]
          /\ hist' = <<e>> \o hist
    /\ UNCHANGED <<its, out, ended, calls, asked>>

\* BinaryHeap::push: append, then sift up while greater than the parent.
RECURSIVE SiftUp(_, _)
SiftUp(data, pos) ==
    IF pos > 1 /\ data[pos] > data[pos \div 2]
    THEN SiftUp([data EXCEPT ![pos] = data[pos \div 2], ![pos \div 2] = data[pos]],
                pos \div 2)
    ELSE data

\* heap.push(e), e the ordinal of the push
HeapPush ==
    /\ NoLive
    /\ src.kind = "BinaryHeap"
    /\ Len(src.data) < MaxLen
    /\ src' = [src EXCEPT !.data = SiftUp(Append(src.data, Len(src.data) + 1),
                                          Len(src.data) + 1)]
    /\ UNCHANGED <<its, out, ended, calls, asked, hist>>

\* iter(&o, f): builds the FuncIterView, f is not called.
FuncIter(f) ==
    /\ src.kind = "Anchor"
    /\ src' = [kind |-> "FuncIterView", f |-> f, o |-> src.o]
    /\ UNCHANGED <<its, out, ended, calls, asked, hist>>

\* Box::new(src): Box<T> is an IterView for a sized T only.
WrapBox ==
    /\ NoLive
    /\ IsIterView(src)
    /\ Depth(src) < MaxDepth
    /\ src.kind # "Slice"
    /\ src' = BoxOf(src)
    /\ UNCHANGED <<its, out, ended, calls, asked, hist>>

\* &src
WrapRef ==
    /\ NoLive
    /\ IsIterView(src)
    /\ Depth(src) < MaxDepth
    /\ src' = RefOf(src)
    /\ UNCHANGED <<its, out, ended, calls, asked, hist>>

\* let it = src.iter();
IterAct(i) ==
    /\ its[i].type = "none"
    /\ IsIterView(src)
    /\ asked < MaxCalls
    /\ LET r == IterViewIter(src) IN
        /\ its' = [its EXCEPT ![i] = r.it]
        /\ calls' = calls + r.inv
    /\ asked' = asked + (IF Base(src).kind = "FuncIterView" THEN 1 ELSE 0)
    /\ out' = [out EXCEPT ![i] = <<>>]
    /\ ended' = [ended EXCEPT ![i] = FALSE]
    /\ UNCHANGED <<src, hist>>

\* NextAct with one cursor shared by all the traversals of the value.
NextActShared(i) ==
    /\ its[i].type # "none"
    /\ LET r == IterNext(its[i], Base(src)) IN
        /\ its' = [j \in Slots |-> IF its[j].type = "none" THEN its[j] ELSE r.it]
        /\ out' = [out EXCEPT ![i] = IF r.some THEN Append(@, r.item) ELSE @]
        /\ ended' = [ended EXCEPT ![i] = @ \/ ~r.some]
    /\ UNCHANGED <<src, calls, asked, hist>>

\* NextAct moving the payload out of an Option, as Option::take does.
NextActTake(i) ==
    /\ its[i].type # "none"
    /\ LET r == IterNext(its[i], Base(src)) IN
        /\ its' = [its EXCEPT ![i] = r.it]
        /\ out' = [out EXCEPT ![i] = IF r.some THEN Append(@, r.item) ELSE @]
        /\ ended' = [ended EXCEPT ![i] = @ \/ ~r.some]
        /\ src' = IF src.kind = "Option" /\ r.some THEN NoneOpt ELSE src
    /\ UNCHANGED <<calls, asked, hist>>

\* it.next()
NextAct(i) ==
    /\ its[i].type # "none"
    /\ LET r == IterNext(its[i], Base(src)) IN
        /\ its' = [its EXCEPT ![i] = r.it]
        /\ out' = [out EXCEPT ![i] = IF r.some THEN Append(@, r.item) ELSE @]
        /\ ended' = [ended EXCEPT ![i] = @ \/ ~r.some]
    /\ UNCHANGED <<src, calls, asked, hist>>

\* drop(it)
DropAct(i) ==
    /\ its[i].type # "none"
    /\ its' = [its EXCEPT ![i] = NoIter]
    /\ out' = [out EXCEPT ![i] = <<>>]
    /\ ended' = [ended EXCEPT ![i] = FALSE]
    /\ UNCHANGED <<src, calls, asked, hist>>

Next ==
    \/ \E k \in Keys : MapInsert(k)
    \/ \E k \in Keys : SetInsert(k)
    \/ ListPushBack
    \/ ListPushFront
    \/ DequePushBack
    \/ DequePushFront
    \/ HeapPush
    \/ \E f \in Projections : FuncIter(f)
    \/ WrapBox
    \/ WrapRef
    \/ \E i \in Slots : IterAct(i)
    \/ \E i \in Slots : NextAct(i)
    \/ \E i \in Slots : DropAct(i)

Spec == Init /\ [][Next]_vars

----------------------------------------------------------------------------
(* What the properties are stated with.                                    *)

Live(i) == its[i].type # "none"

\* The items a traversal still yields: next() until None, at most fuel times.
RECURSIVE Collect(_, _, _)
Collect(it, base, fuel) ==
    IF fuel = 0
    THEN <<>>
    ELSE LET r == IterNext(it, base) IN
         IF r.some THEN <<r.item>> \o Collect(r.it, base, fuel - 1) ELSE <<>>

Fuel == MaxLen + 2

\* Everything a traversal obtained now from v yields.
Traversal(v) == Collect(IterViewIter(v).it, Base(v), Fuel)

\* What traversal i has yielded followed by what it still yields.
Whole(i) == out[i] \o Collect(its[i], Base(src), Fuel)

\* The next call of next() on traversal i returns None.
AtEnd(i) == ~IterNext(its[i], Base(src)).some

IsPrefix(s, t) == Len(s) <= Len(t) /\ SubSeq(t, 1, Len(s)) = s

Vals(items) == [j \in 1..Len(items) |-> items[j].val]
Locs(items) == [j \in 1..Len(items) |-> items[j].loc]
Distinct(s) == \A a, b \in 1..Len(s) : a # b => s[a] # s[b]

\* The elements of an array, a Vec or a slice, and where the first one is.
ElemsOf(v) == IF v.kind = "Slice" THEN SubSeq(v.data, v.lo, v.hi - 1) ELSE v.data
FirstOf(v) == IF v.kind = "Slice" THEN v.lo ELSE 1

\* Traversal i has yielded the first elements of es, in order, and has
\* returned None only after all of them.
YieldsInOrder(i, es) ==
    /\ IsPrefix(Vals(out[i]), es)
    /\ ended[i] => Len(out[i]) = Len(es)
    /\ Len(out[i]) = Len(es) => AtEnd(i)

----------------------------------------------------------------------------
(* C1: the traversal of a Vec, an array or a slice holding e1..en yields    *)
(* references to e1, .., en in index order, each pointing at the element's *)
(* own place, and the (n+1)-th next() is None; the sequence depends on the *)
(* elements only, not on which of the three types holds them.              *)
C1_SliceOrder ==
    Base(src).kind \in {"Vec", "Array", "Slice"} =>
        \A i \in Slots : Live(i) =>
            /\ YieldsInOrder(i, ElemsOf(Base(src)))
            /\ \A j \in 1..Len(out[i]) : out[i][j].loc = FirstOf(Base(src)) + j - 1

C1_Witness ==
    /\ src = ArrayOf(<<1, 2, 3>>)
    /\ Vals(out[1]) = <<1, 2, 3>>
    /\ ended[1]

C3_Option ==
    Base(src).kind = "Option" =>
        \A i \in Slots : Live(i) =>
            IF Base(src).some
            THEN /\ YieldsInOrder(i, <<Base(src).val>>)
                 /\ Locs(out[i]) \in {<<>>, <<1>>}
            ELSE out[i] = <<>> /\ AtEnd(i)

C3_Witness ==
    /\ src = SomeOf(2)
    /\ out[1] = <<RefTo(1, 2)>>
    /\ ended[1]

(* C4: the traversal of Ok(v) yields one reference to v and then None; the *)
(* traversal of Err(e) yields nothing, whatever e is.                      *)
C4_Result ==
    Base(src).kind = "Result" =>
        \A i \in Slots : Live(i) =>
            IF Base(src).ok
            THEN /\ YieldsInOrder(i, <<Base(src).val>>)
                 /\ Locs(out[i]) \in {<<>>, <<1>>}
            ELSE out[i] = <<>> /\ AtEnd(i)

C4_Witness ==
    /\ src = ErrOf(2)
    /\ Live(1)
    /\ ended[1]
    /\ out[1] = <<>>

\* The integers lo, lo + 1, .., hi - 1.
RangeSeq(lo, hi) == [j \in 1..(IF hi > lo THEN hi - lo ELSE 0) |-> lo + j - 1]

\* What the range a projection returns for anchor o holds.
Projected(f, o) ==
    CASE f = "upto" -> RangeSeq(0, o)
      [] f = "empty" -> <<>>
      [] f = "single" -> <<o>>

(* C5: building a FuncIterView does not call the projection; every iter()  *)
(* on it calls the projection once, on the anchor it was built with, and   *)
(* the traversal is the projection's result unchanged (by value); anchor 3 *)
(* with |v| 0..*v yields 0, 1, 2 and then None.                            *)
C5_FuncIterView ==
    /\ src.kind = "Anchor" => calls = 0
    /\ Base(src).kind = "FuncIterView" =>
        /\ calls = asked
        /\ \A i \in Slots : Live(i) =>
            /\ YieldsInOrder(i, Projected(Base(src).f, Base(src).o))
            /\ \A j \in 1..Len(out[i]) : out[i][j].loc = 0

C5_Witness ==
    /\ src = [kind |-> "FuncIterView", f |-> "upto", o |-> 3]
    /\ Vals(out[1]) = <<0, 1, 2>>
    /\ ended[1]
    /\ calls = 1

(* C6: the traversal of Box<x> or &x, nested or not, is item for item the  *)
(* traversal of x.                                                         *)
C6_Delegation ==
    IsWrapper(src) =>
        /\ Traversal(src) = Traversal(src.inner)
        /\ \A i \in Slots : Live(i) => Whole(i) = Traversal(Base(src))

C6_Witness ==
    /\ src = BoxOf(BoxOf(VecOf(<<3, 2, 1>>)))
    /\ Vals(out[1]) = <<3, 2, 1>>
    /\ ended[1]

\* The entries of a hash table, as the items a traversal yields for them.
EntriesOf(tab) == {[loc |-> j, key |-> tab[j].k, val |-> tab[j].v] : j \in Occupied(tab)}

(* C7: the traversal of a HashMap with n entries yields n pairs, each a    *)
(* key with the value stored under it, every entry once; two traversals of *)
(* the unmutated map yield the entries in the same order.                  *)
C7_HashMap ==
    Base(src).kind = "HashMap" =>
        \A i \in Slots : Live(i) =>
            /\ \A j \in 1..Len(out[i]) :
                /\ out[i][j] \in EntriesOf(Base(src).tab)
                /\ out[i][j].val = ValOf(out[i][j].key)
            /\ Distinct(out[i])
            /\ ended[i] => Len(out[i]) = Count(Base(src).tab)
            /\ Len(out[i]) = Count(Base(src).tab) => AtEnd(i)
            /\ \A j \in Slots : Live(j) /\ Len(out[j]) >= Len(out[i]) =>
                IsPrefix(out[i], out[j])

C7_Witness ==
    /\ src.kind = "HashMap"
    /\ Count(src.tab) = 2
    /\ Len(out[1]) = 2 /\ ended[1]
    /\ Len(out[2]) = 2 /\ ended[2]
    /\ out[1][1].key > out[1][2].key

(* C8: producing, advancing and dropping traversals leaves the source      *)
(* value as it was: every step that changes a traversal keeps src.         *)
C8_SourceUnchanged ==
    [][(its' # its \/ out' # out \/ ended' # ended) => src' = src]_vars

C8_Witness ==
    /\ Base(src).kind = "FuncIterView"
    /\ asked = 3
    /\ Live(1) /\ Len(out[1]) = 1 /\ ~ended[1]
    /\ ~Live(2)

\* v holds no element.
IsEmpty(v) ==
    CASE v.kind \in {"Vec", "Array", "BinaryHeap"} -> Len(v.data) = 0
      [] v.kind = "Slice" -> v.lo = v.hi
      [] v.kind = "Option" -> ~v.some
      [] v.kind = "Result" -> ~v.ok
      [] v.kind \in {"HashMap", "HashSet"} -> \A j \in 1..NBuckets : v.tab[j].k = 0
      [] v.kind \in {"LinkedList", "VecDeque"} -> v.len = 0
      [] v.kind = "FuncIterView" -> Projected(v.f, v.o) = <<>>
      [] v.kind = "Anchor" -> FALSE

(* C9: for a value with no element, wrapped or not, iter() returns a       *)
(* traversal whose first next() is None.                                   *)
C9_Empty ==
    IsEmpty(Base(src)) =>
        /\ ~IterNext(IterViewIter(src).it, Base(src)).some
        /\ \A i \in Slots : Live(i) => out[i] = <<>> /\ AtEnd(i)

C9_Witness ==
    /\ src = RefOf(BoxOf(EmptyDeque))
    /\ Live(1)
    /\ ended[1]
    /\ out[1] = <<>>

(* C10: the traversal of a LinkedList or a VecDeque of n elements yields   *)
(* each element once, front to back as the push_back and push_front calls  *)
(* ordered them, wherever the ring buffer wraps, and None after n items.   *)
C10_FrontToBack ==
    Base(src).kind \in {"LinkedList", "VecDeque"} =>
        \A i \in Slots : Live(i) =>
            /\ Len(hist) = Base(src).len
            /\ YieldsInOrder(i, hist)
            /\ Distinct(Locs(out[i]))

C10_Witness ==
    /\ src.kind = "VecDeque"
    /\ src.head + src.len > Cap
    /\ src.len = 3
    /\ Vals(out[1]) = hist
    /\ ended[1]

====
